---- MODULE Spec2Model ----
(***************************************************************************)
(* Model of app.py, the Streamlit dashboard of the slow-learner prediction *)
(* tool: the cached artifact loader, the prediction helper, the remedial   *)
(* suggestion rules and the script that Streamlit reruns on every request. *)
(*                                                                         *)
(* Python values: an optional value is a sequence of at most one element,  *)
(* None is <<>> and a value v is <<v>>.  A probability is an integer count *)
(* of 1/PROB_DEN (hundredths of a percent).  Scores, grades and attendance *)
(* are whole points.                                                       *)
(***************************************************************************)
EXTENDS Integers, Sequences, FiniteSets, TLC

VARIABLES
    fs,              \* the two artifact files on disk: "present", "absent" or "corrupt"
    cache,           \* st.cache_resource entry of load_artifacts: <<>> or <<entry>>
    reads,           \* number of joblib.load calls made by this process
    loads,           \* number of executions of the body of load_artifacts
    scaler,          \* module global scaler of the last script run
    final_model,     \* module global final_model of the last script run
    score,           \* form widget values of the session
    grade,
    attendance,
    late,
    participation,
    predict_button,  \* value of the form submit button in the last script run
    page,            \* what the last script run rendered in the main area
    pc,              \* direct calls: "ready" before the call, "returned" after it
    call,            \* direct calls: the function called and its arguments
    ret,             \* direct calls: the value returned
    prev             \* direct calls: <<>> or <<the previous call and its result>>

vars == <<fs, cache, reads, loads, scaler, final_model, score, grade, attendance,
          late, participation, predict_button, page, pc, call, ret, prev>>

appVars == <<fs, cache, reads, loads, scaler, final_model, score, grade, attendance,
             late, participation, predict_button, page>>

callVars == <<pc, call, ret, prev>>

-----------------------------------------------------------------------------
(* Bounds of the model *)

MaxLate == 0
MaxReads == 3
MaxLabel == 2

-----------------------------------------------------------------------------
(* Constants of the program *)

SCALER_FILENAME == "scaler.joblib"
MODEL_FILENAME == "random_forest_model.joblib"

SCORE_THRESHOLD == 45
GRADE_THRESHOLD == 70
ATTENDANCE_THRESHOLD == 85
PARTICIPATION_THRESHOLD == 2

MIN_VALUE == 0
MAX_VALUE == 100
MIN_LATE == 0
MIN_PARTICIPATION == 1
MAX_PARTICIPATION == 5

DEFAULT_SCORE == 50
DEFAULT_GRADE == 75
DEFAULT_ATTENDANCE == 90
DEFAULT_LATE == 2
DEFAULT_PARTICIPATION == 3

HEADLINE_PRECISION == 2
METRIC_PRECISION == 1

\* probabilities are counted in hundredths of a percent: 1.0 is PROB_DEN
PROB_DEN == 100 * 100

None == <<>>
Some(v) == <<v>>

-----------------------------------------------------------------------------
(* Python's percent presentation type: f"{p:.N%}" *)

RECURSIVE Pow10(_)
Pow10(n) == IF n = 0 THEN 1 ELSE 10 * Pow10(n - 1)

RECURSIVE ZeroPad(_, _)
\* the decimal digits of v, left-padded with zeros to width w
ZeroPad(v, w) ==
    IF w = 0 THEN ""
    ELSE ZeroPad(v \div 10, w - 1) \o ToString(v % 10)

\* p * 100 rounded to prec decimals, as a count of 10^-prec percent.  The
\* float is rounded on its binary value, so a value that is a decimal tie on
\* this grid goes to either neighbour.
PercentRoundings(p, prec) ==
    LET num == p * 100 * Pow10(prec)
        q == num \div PROB_DEN
        r == num % PROB_DEN
    IN  IF 2 * r < PROB_DEN THEN {q}
        ELSE IF 2 * r > PROB_DEN THEN {q + 1}
        ELSE {q, q + 1}

\* fixed-point text of v * 10^-prec followed by the percent sign
PercentText(v, prec) ==
    ToString(v \div Pow10(prec)) \o "." \o ZeroPad(v % Pow10(prec), prec) \o "%"

\* the texts f"{p:.prec%}" can produce for probability p
format_percent(p, prec) == { PercentText(v, prec) : v \in PercentRoundings(p, prec) }

-----------------------------------------------------------------------------
(* get_remedial_suggestions *)

HeadlinePrefix == "**Student identified as potentially needing support (Probability: "
HeadlineSuffix == ")**"

Headline_metric_precision(probability, prec) ==
    HeadlinePrefix \o (CHOOSE t \in format_percent(probability, METRIC_PRECISION) : TRUE) \o HeadlineSuffix

Headline(probability, prec) ==
    HeadlinePrefix \o (CHOOSE t \in format_percent(probability, prec) : TRUE) \o HeadlineSuffix

GeneralActions ==
    << "---",
       "**Recommended Actions:**",
       "* Schedule a one-on-one meeting to discuss challenges and learning style.",
       "* Provide simplified explanations and break down complex topics.",
       "* Offer extra practice exercises tailored to weak areas.",
       "* Utilize visual aids and hands-on activities.",
       "* Encourage questions in a supportive environment.",
       "* Recommend peer tutoring or study groups.",
       "\n**Observations & Targeted Suggestions:**" >>

ScoreBlock ==
    << "* *Observation:* Low Standardized Test Score.",
       "    * *Suggestion:* Focus on foundational concepts for test topics." >>

GradeBlock ==
    << "* *Observation:* Low Average Grade.",
       "    * *Suggestion:* Review recent assignments for weaknesses.",
       "    * *Suggestion:* Offer re-assessment or extra credit opportunities." >>

AttendanceBlock ==
    << "* *Observation:* Low Attendance.",
       "    * *Suggestion:* Discuss barriers to attendance." >>

ParticipationBlock ==
    << "* *Observation:* Low Class Participation.",
       "    * *Suggestion:* Create low-pressure participation opportunities.",
       "    * *Suggestion:* Reinforce participation attempts positively." >>

FallbackLine == "* No specific low metrics triggered; focus on general strategies."

FollowUp ==
    << "\n---",
       "**Follow Up:** Monitor progress and adjust strategies as needed." >>

ScoreLow_inclusive(standardized_test_score) == standardized_test_score <= SCORE_THRESHOLD
ScoreLow(standardized_test_score) == standardized_test_score < SCORE_THRESHOLD
GradeLow_inclusive(average_grade) == average_grade <= GRADE_THRESHOLD
GradeLow(average_grade) == average_grade < GRADE_THRESHOLD
AttendanceLow(attendance_percentage) == attendance_percentage < ATTENDANCE_THRESHOLD
ParticipationLow(participation_rating) == participation_rating <= PARTICIPATION_THRESHOLD

\* triggered_specific after the four threshold tests
TriggeredSpecific_without_participation(standardized_test_score, average_grade, attendance_percentage, participation_rating) ==
    \/ ScoreLow(standardized_test_score)
    \/ GradeLow(average_grade)
    \/ AttendanceLow(attendance_percentage)

TriggeredSpecific(standardized_test_score, average_grade, attendance_percentage, participation_rating) ==
    \/ ScoreLow(standardized_test_score)
    \/ GradeLow(average_grade)
    \/ AttendanceLow(attendance_percentage)
    \/ ParticipationLow(participation_rating)

\* the lines appended by the four threshold tests and the fallback test
Observations(standardized_test_score, average_grade, attendance_percentage, participation_rating) ==
    (IF ScoreLow(standardized_test_score) THEN ScoreBlock ELSE << >>)
    \o (IF GradeLow(average_grade) THEN GradeBlock ELSE << >>)
    \o (IF AttendanceLow(attendance_percentage) THEN AttendanceBlock ELSE << >>)
    \o (IF ParticipationLow(participation_rating) THEN ParticipationBlock ELSE << >>)
    \o (IF ~TriggeredSpecific(standardized_test_score, average_grade, attendance_percentage, participation_rating)
        THEN << FallbackLine >> ELSE << >>)

get_remedial_suggestions_truthy_label(prediction, probability, standardized_test_score, average_grade, attendance_percentage, participation_rating) ==
    IF prediction # 0
    THEN << Headline(probability, HEADLINE_PRECISION) >>
         \o GeneralActions
         \o Observations(standardized_test_score, average_grade, attendance_percentage, participation_rating)
         \o FollowUp
    ELSE << >>

get_remedial_suggestions_follow_up_in_fallback(prediction, probability, standardized_test_score, average_grade, attendance_percentage, participation_rating) ==
    IF prediction = 1
    THEN << Headline(probability, HEADLINE_PRECISION) >>
         \o GeneralActions
         \o Observations(standardized_test_score, average_grade, attendance_percentage, participation_rating)
         \o (IF ~TriggeredSpecific(standardized_test_score, average_grade, attendance_percentage, participation_rating)
             THEN FollowUp ELSE << >>)
    ELSE << >>

get_remedial_suggestions(prediction, probability, standardized_test_score, average_grade, attendance_percentage, participation_rating) ==
    IF prediction = 1
    THEN << Headline(probability, HEADLINE_PRECISION) >>
         \o GeneralActions
         \o Observations(standardized_test_score, average_grade, attendance_percentage, participation_rating)
         \o FollowUp
    ELSE << >>

-----------------------------------------------------------------------------
(* load_artifacts and its st.cache_resource cache *)

FileStates == {"present", "absent", "corrupt"}

SCALER_OBJECT == "StandardScaler"
MODEL_OBJECT == "RandomForestClassifier"

\* joblib.load of one file: the object in it, or the exception raised
joblib_load(state, object) ==
    IF state = "present" THEN [raised |-> "none", value |-> Some(object)]
    ELSE IF state = "absent" THEN [raised |-> "FileNotFoundError", value |-> None]
    ELSE [raised |-> "Exception", value |-> None]

\* st.error shown by the except clause that catches the exception
ErrorFor(raised) ==
    IF raised = "FileNotFoundError"
    THEN "Error: Could not find '" \o SCALER_FILENAME \o "' or '" \o MODEL_FILENAME \o "'. Ensure they are in the app directory."
    ELSE "Error loading artifacts: " \o raised

load_artifacts_partial(files) ==
    LET s == joblib_load(files.scaler, SCALER_OBJECT)
        m == joblib_load(files.model, MODEL_OBJECT)
    IN  IF s.raised # "none"
        THEN [scaler |-> None, model |-> None, error |-> Some(ErrorFor(s.raised)),
              reads |-> 1, escaped |-> "none"]
        ELSE [scaler |-> s.value, model |-> m.value,
              error |-> IF m.raised # "none" THEN Some(ErrorFor(m.raised)) ELSE None,
              reads |-> 2, escaped |-> "none"]

\* the body of load_artifacts: what it returns, what it signals, how many
\* files it read and the exception that left it (none)
load_artifacts(files) ==
    LET s == joblib_load(files.scaler, SCALER_OBJECT)
        m == joblib_load(files.model, MODEL_OBJECT)
    IN  IF s.raised # "none"
        THEN [scaler |-> None, model |-> None, error |-> Some(ErrorFor(s.raised)),
              reads |-> 1, escaped |-> "none"]
        ELSE IF m.raised # "none"
        THEN [scaler |-> None, model |-> None, error |-> Some(ErrorFor(m.raised)),
              reads |-> 2, escaped |-> "none"]
        ELSE [scaler |-> s.value, model |-> m.value, error |-> None,
              reads |-> 2, escaped |-> "none"]

cached_load_artifacts_uncached(entry, files) ==
    [result |-> load_artifacts(files), miss |-> TRUE]

\* @st.cache_resource: the body runs on a miss only, a hit returns the entry
cached_load_artifacts(entry, files) ==
    IF entry = << >>
    THEN [result |-> load_artifacts(files), miss |-> TRUE]
    ELSE [result |-> [entry[1] EXCEPT !.reads = 0], miss |-> FALSE]

-----------------------------------------------------------------------------
(* predict_slow_learner *)

ClassLabels == {0, 1}
ProbVals == {5, 7340, 7345, PROB_DEN}

\* what the fitted classifier answers for a scaled row: opaque, any label
\* with any positive-class probability
ClassifierOutputs == [prediction : ClassLabels, probability : ProbVals]

predict_slow_learner_and_guard(data, scaler_obj, model_obj) ==
    IF scaler_obj = None /\ model_obj = None
    THEN { [prediction |-> None, probability |-> None,
            transformed |-> << >>, predicted |-> << >>] }
    ELSE { [prediction |-> Some(out.prediction), probability |-> Some(out.probability),
            transformed |-> << data >>, predicted |-> << <<"scaled", data>> >>]
           : out \in ClassifierOutputs }

predict_slow_learner_validating(data, scaler_obj, model_obj) ==
    IF \/ scaler_obj = None
       \/ model_obj = None
       \/ data.Standardized_Test_Score \notin MIN_VALUE .. MAX_VALUE
       \/ data.Average_Grade \notin MIN_VALUE .. MAX_VALUE
       \/ data.Attendance_Percentage \notin MIN_VALUE .. MAX_VALUE
       \/ data.Times_Late < MIN_LATE
       \/ data.Participation_Rating \notin MIN_PARTICIPATION .. MAX_PARTICIPATION
    THEN { [prediction |-> None, probability |-> None,
            transformed |-> << >>, predicted |-> << >>] }
    ELSE { [prediction |-> Some(out.prediction), probability |-> Some(out.probability),
            transformed |-> << data >>, predicted |-> << <<"scaled", data>> >>]
           : out \in ClassifierOutputs }

\* the results of predict_slow_learner: (prediction, probability) and the
\* rows handed to scaler_obj.transform and to model_obj.predict
predict_slow_learner(data, scaler_obj, model_obj) ==
    IF scaler_obj = None \/ model_obj = None
    THEN { [prediction |-> None, probability |-> None,
            transformed |-> << >>, predicted |-> << >>] }
    ELSE { [prediction |-> Some(out.prediction), probability |-> Some(out.probability),
            transformed |-> << data >>, predicted |-> << <<"scaled", data>> >>]
           : out \in ClassifierOutputs }

-----------------------------------------------------------------------------
(* the main area of the script: prediction results *)

BlankPage ==
    [banner |-> "none", status |-> "none", metric |-> None,
     suggestions |-> << >>, transformCalls |-> 0]

input_features(w) ==
    [Standardized_Test_Score |-> w.score, Average_Grade |-> w.grade,
     Attendance_Percentage |-> w.attendance, Times_Late |-> w.late,
     Participation_Rating |-> w.participation]

\* the pages the main area can render for the globals, the button and the
\* widget values w
MainArea(scaler_v, model_v, button, w) ==
    IF scaler_v = None \/ model_v = None
    THEN { [BlankPage EXCEPT !.banner = "warning"] }
    ELSE IF button
    THEN UNION { IF r.prediction # None
                 THEN { [banner |-> "result",
                         status |-> IF r.prediction[1] = 1 THEN "support" ELSE "no_support",
                         metric |-> Some(t),
                         suggestions |-> get_remedial_suggestions(r.prediction[1], r.probability[1], w.score, w.grade, w.attendance, w.participation),
                         transformCalls |-> Len(r.transformed)]
                        : t \in format_percent(r.probability[1], METRIC_PRECISION) }
                 ELSE { [BlankPage EXCEPT !.banner = "error",
                                          !.transformCalls = Len(r.transformed)] }
                 : r \in predict_slow_learner(input_features(w), scaler_v, model_v) }
    ELSE { [BlankPage EXCEPT !.banner = "info"] }

-----------------------------------------------------------------------------
(* the form widgets *)

ScoreWidget == {v \in {MIN_VALUE, DEFAULT_SCORE} : MIN_VALUE <= v /\ v <= MAX_VALUE}
GradeWidget == {v \in {MIN_VALUE, DEFAULT_GRADE} : MIN_VALUE <= v /\ v <= MAX_VALUE}
AttendanceWidget == {v \in {MIN_VALUE, DEFAULT_ATTENDANCE} : MIN_VALUE <= v /\ v <= MAX_VALUE}
LateWidget == (MIN_LATE .. MaxLate) \cup {DEFAULT_LATE}
ParticipationWidget == MIN_PARTICIPATION .. MAX_PARTICIPATION

Widgets ==
    [score |-> score, grade |-> grade, attendance |-> attendance,
     late |-> late, participation |-> participation]

-----------------------------------------------------------------------------
(* the process: script runs, form edits, the filesystem *)

NoCall == [fn |-> "none"]

AppInit ==
    /\ fs \in [scaler : FileStates, model : FileStates]
    /\ cache = << >>
    /\ reads = 0
    /\ loads = 0
    /\ scaler = None
    /\ final_model = None
    /\ score = DEFAULT_SCORE
    /\ grade = DEFAULT_GRADE
    /\ attendance = DEFAULT_ATTENDANCE
    /\ late = DEFAULT_LATE
    /\ participation = DEFAULT_PARTICIPATION
    /\ predict_button = FALSE
    /\ page = BlankPage

Init ==
    /\ AppInit
    /\ pc = "idle"
    /\ call = NoCall
    /\ ret = << >>
    /\ prev = << >>

\* one run of the script, top to bottom, with the given button value and
\* widget values
Script(button, w) ==
    LET got == cached_load_artifacts(cache, fs)
        r == got.result
    IN  /\ reads < MaxReads
        /\ cache' = IF got.miss THEN << r >> ELSE cache
        /\ reads' = reads + r.reads
        /\ loads' = loads + (IF got.miss THEN 1 ELSE 0)
        /\ scaler' = r.scaler
        /\ final_model' = r.model
        /\ predict_button' = button
        /\ page' \in MainArea(r.scaler, r.model, button, w)

\* a browser session opens or reloads the page: widgets at their defaults
Reload ==
    /\ Script(FALSE, [score |-> DEFAULT_SCORE, grade |-> DEFAULT_GRADE,
                      attendance |-> DEFAULT_ATTENDANCE, late |-> DEFAULT_LATE,
                      participation |-> DEFAULT_PARTICIPATION])
    /\ score' = DEFAULT_SCORE
    /\ grade' = DEFAULT_GRADE
    /\ attendance' = DEFAULT_ATTENDANCE
    /\ late' = DEFAULT_LATE
    /\ participation' = DEFAULT_PARTICIPATION
    /\ UNCHANGED <<fs, callVars>>

\* the session reruns the script without a click of the submit button
Rerun ==
    /\ page.banner # "none"
    /\ Script(FALSE, Widgets)
    /\ UNCHANGED <<fs, score, grade, attendance, late, participation, callVars>>

\* a click of the form submit button
Submit ==
    /\ page.banner # "none"
    /\ Script(TRUE, Widgets)
    /\ UNCHANGED <<fs, score, grade, attendance, late, participation, callVars>>

\* the user edits a widget of the form: no rerun until the form is submitted
EditScore ==
    /\ page.banner # "none"
    /\ \E v \in ScoreWidget \ {score} : score' = v
    /\ UNCHANGED <<fs, cache, reads, loads, scaler, final_model, grade, attendance, late, participation, predict_button, page, callVars>>

EditGrade ==
    /\ page.banner # "none"
    /\ \E v \in GradeWidget \ {grade} : grade' = v
    /\ UNCHANGED <<fs, cache, reads, loads, scaler, final_model, score, attendance, late, participation, predict_button, page, callVars>>

EditAttendance ==
    /\ page.banner # "none"
    /\ \E v \in AttendanceWidget \ {attendance} : attendance' = v
    /\ UNCHANGED <<fs, cache, reads, loads, scaler, final_model, score, grade, late, participation, predict_button, page, callVars>>

EditLate ==
    /\ page.banner # "none"
    /\ \E v \in LateWidget \ {late} : late' = v
    /\ UNCHANGED <<fs, cache, reads, loads, scaler, final_model, score, grade, attendance, participation, predict_button, page, callVars>>

EditParticipation ==
    /\ page.banner # "none"
    /\ \E v \in ParticipationWidget \ {participation} : participation' = v
    /\ UNCHANGED <<fs, cache, reads, loads, scaler, final_model, score, grade, attendance, late, predict_button, page, callVars>>

\* the environment installs, removes or damages an artifact file
FsChange ==
    /\ \E f \in {"scaler", "model"}, st \in FileStates :
          /\ fs[f] # st
          /\ fs' = [fs EXCEPT ![f] = st]
    /\ UNCHANGED <<cache, reads, loads, scaler, final_model, score, grade, attendance, late, participation, predict_button, page, callVars>>

Next ==
    \/ Reload
    \/ Rerun
    \/ Submit
    \/ EditScore
    \/ EditGrade
    \/ EditAttendance
    \/ EditLate
    \/ EditParticipation
    \/ FsChange

Spec == Init /\ [][Next]_vars

-----------------------------------------------------------------------------
(* direct calls of the functions, on arguments of any value *)

GRS == "get_remedial_suggestions"
PSL == "predict_slow_learner"
LOAD == "load_artifacts"
MAIN == "main_area"

LabelArgs == 0 .. MaxLabel
ScoreArgs == {MIN_VALUE, MAX_VALUE, 30, SCORE_THRESHOLD - 1, SCORE_THRESHOLD, SCORE_THRESHOLD + 1, 90}
GradeArgs == {MIN_VALUE, MAX_VALUE, 60, GRADE_THRESHOLD - 1, GRADE_THRESHOLD, GRADE_THRESHOLD + 1, 95}
AttendanceArgs == {MIN_VALUE, MAX_VALUE, 80, ATTENDANCE_THRESHOLD - 1, ATTENDANCE_THRESHOLD, ATTENDANCE_THRESHOLD + 1, 98}
ParticipationArgs == MIN_PARTICIPATION .. MAX_PARTICIPATION

GrsCalls ==
    [fn : {GRS}, prediction : LabelArgs, probability : ProbVals, score : ScoreArgs,
     grade : GradeArgs, attendance : AttendanceArgs, participation : ParticipationArgs]

Artifacts(object) == {None, Some(object)}

\* feature rows inside and outside the declared ranges
DataArgs ==
    [Standardized_Test_Score : {MIN_VALUE - 1, DEFAULT_SCORE, MAX_VALUE + 1},
     Average_Grade : {MIN_VALUE - 1, DEFAULT_GRADE, MAX_VALUE + 1},
     Attendance_Percentage : {MIN_VALUE - 1, DEFAULT_ATTENDANCE, MAX_VALUE + 1},
     Times_Late : {MIN_LATE - 1, DEFAULT_LATE},
     Participation_Rating : {MIN_PARTICIPATION - 1, DEFAULT_PARTICIPATION, MAX_PARTICIPATION + 1}]

PslCalls ==
    [fn : {PSL}, data : DataArgs,
     scaler_obj : Artifacts(SCALER_OBJECT), model_obj : Artifacts(MODEL_OBJECT)]

LoadCalls == [fn : {LOAD}, files : [scaler : FileStates, model : FileStates]]

MainCalls ==
    [fn : {MAIN}, scaler : Artifacts(SCALER_OBJECT), final_model : Artifacts(MODEL_OBJECT),
     predict_button : BOOLEAN,
     w : [score : ScoreWidget, grade : GradeWidget, attendance : AttendanceWidget,
          late : LateWidget, participation : ParticipationWidget]]

CallInit ==
    /\ fs = [scaler |-> "present", model |-> "present"]
    /\ cache = << >>
    /\ reads = 0
    /\ loads = 0
    /\ scaler = None
    /\ final_model = None
    /\ score = DEFAULT_SCORE
    /\ grade = DEFAULT_GRADE
    /\ attendance = DEFAULT_ATTENDANCE
    /\ late = DEFAULT_LATE
    /\ participation = DEFAULT_PARTICIPATION
    /\ predict_button = FALSE
    /\ page = BlankPage
    /\ pc = "ready"
    /\ call \in GrsCalls \cup PslCalls \cup LoadCalls \cup MainCalls
    /\ ret = << >>
    /\ prev = << >>

Call_get_remedial_suggestions ==
    /\ pc = "ready"
    /\ call.fn = GRS
    /\ ret' = get_remedial_suggestions(call.prediction, call.probability, call.score, call.grade, call.attendance, call.participation)
    /\ pc' = "returned"
    /\ UNCHANGED <<call, prev, appVars>>

\* the same call once more, with another score
Recall_with_score ==
    /\ pc = "returned"
    /\ call.fn = GRS
    /\ prev = << >>
    /\ \E s \in ScoreArgs \ {call.score} :
          /\ call' = [call EXCEPT !.score = s]
          /\ ret' = get_remedial_suggestions(call.prediction, call.probability, s, call.grade, call.attendance, call.participation)
    /\ prev' = << [call |-> call, ret |-> ret] >>
    /\ UNCHANGED <<pc, appVars>>

Call_predict_slow_learner ==
    /\ pc = "ready"
    /\ call.fn = PSL
    /\ ret' \in predict_slow_learner(call.data, call.scaler_obj, call.model_obj)
    /\ pc' = "returned"
    /\ UNCHANGED <<call, prev, appVars>>

Call_load_artifacts ==
    /\ pc = "ready"
    /\ call.fn = LOAD
    /\ ret' = load_artifacts(call.files)
    /\ pc' = "returned"
    /\ UNCHANGED <<call, prev, appVars>>

\* the main area run on the given globals, button and widget values
Call_main_area ==
    /\ pc = "ready"
    /\ call.fn = MAIN
    /\ ret' \in MainArea(call.scaler, call.final_model, call.predict_button, call.w)
    /\ pc' = "returned"
    /\ UNCHANGED <<call, prev, appVars>>

CallNext ==
    \/ Call_get_remedial_suggestions
    \/ Recall_with_score
    \/ Call_predict_slow_learner
    \/ Call_load_artifacts
    \/ Call_main_area

SpecCall == CallInit /\ [][CallNext]_vars

-----------------------------------------------------------------------------
(* Properties *)

Returned(fn) == pc = "returned" /\ call.fn = fn

FollowUpLine == "**Follow Up:** Monitor progress and adjust strategies as needed."

ObservationLines ==
    << "* *Observation:* Low Standardized Test Score.",
       "* *Observation:* Low Average Grade.",
       "* *Observation:* Low Attendance.",
       "* *Observation:* Low Class Participation." >>

SuggestionLines ==
    { "    * *Suggestion:* Focus on foundational concepts for test topics.",
      "    * *Suggestion:* Review recent assignments for weaknesses.",
      "    * *Suggestion:* Offer re-assessment or extra credit opportunities.",
      "    * *Suggestion:* Discuss barriers to attendance.",
      "    * *Suggestion:* Create low-pressure participation opportunities.",
      "    * *Suggestion:* Reinforce participation attempts positively." }

SuggestionCount == << 1, 2, 1, 2 >>

\* the four thresholds of the rules, on the arguments of call c
Triggers(c) == << c.score < 45, c.grade < 70, c.attendance < 85, c.participation <= 2 >>

Positions(list, line) == { i \in 1 .. Len(list) : list[i] = line }

Count(list, line) == Cardinality(Positions(list, line))

\* the text of p/PROB_DEN as a percentage with exactly two decimals
TwoDecimals(p) ==
    ToString(p \div 100) \o "." \o ToString((p % 100) \div 10) \o ToString(p % 10) \o "%"

\* the texts of a percentage with exactly one decimal
OneDecimalTexts == { ToString(v \div 10) \o "." \o ToString(v % 10) \o "%" : v \in 0 .. 1000 }

\* list with the lines of block put in after its first i lines
InsertAt(list, i, block) == SubSeq(list, 1, i) \o block \o SubSeq(list, i + 1, Len(list))

NotFallback(line) == line # FallbackLine

SameButScore(c, d) ==
    /\ c.prediction = d.prediction
    /\ c.probability = d.probability
    /\ c.grade = d.grade
    /\ c.attendance = d.attendance
    /\ c.participation = d.participation

\* C1: get_remedial_suggestions returns the empty list whenever the label
\* (prediction) is not 1, whatever the other arguments are.
C1_EmptyUnlessLabelOne ==
    (Returned(GRS) /\ call.prediction # 1) => ret = << >>

C1_Witness ==
    /\ Returned(GRS)
    /\ call.prediction = 2
    /\ call.score < 45
    /\ call.participation <= 2
    /\ ret = << >>

\* C2 as stated: with label 1 the first element is the headline and its
\* probability is a percentage with exactly one decimal place.
C2_HeadlineOneDecimal ==
    (Returned(GRS) /\ call.prediction = 1) =>
        /\ Len(ret) >= 1
        /\ \E t \in OneDecimalTexts : ret[1] = HeadlinePrefix \o t \o HeadlineSuffix

\* C2 amended: with label 1 the first element is the support-needed headline
\* and its probability is a percentage with exactly two decimal places
\* (73.40% for a probability of 0.734).
C2_HeadlineTwoDecimals ==
    (Returned(GRS) /\ call.prediction = 1) =>
        /\ Len(ret) >= 1
        /\ ret[1] = "**Student identified as potentially needing support (Probability: "
                    \o TwoDecimals(call.probability) \o ")**"

C2_Witness ==
    /\ Returned(GRS)
    /\ call.prediction = 1
    /\ call.probability = 7340
    /\ ret[1] = "**Student identified as potentially needing support (Probability: 73.40%)**"

\* C3: with label 1, whichever thresholds trigger, the last element of the
\* list is the follow-up reminder line and that line occurs exactly once.
C3_FollowUpLastOnce ==
    (Returned(GRS) /\ call.prediction = 1) =>
        /\ Len(ret) >= 1
        /\ ret[Len(ret)] = FollowUpLine
        /\ Count(ret, FollowUpLine) = 1

C3_WitnessNone ==
    /\ Returned(GRS)
    /\ call.prediction = 1
    /\ Triggers(call) = << FALSE, FALSE, FALSE, FALSE >>
    /\ ret[Len(ret)] = FollowUpLine

C3_WitnessAll ==
    /\ Returned(GRS)
    /\ call.prediction = 1
    /\ Triggers(call) = << TRUE, TRUE, TRUE, TRUE >>
    /\ ret[Len(ret)] = FollowUpLine

\* C4: with label 1 each observation block is in the list if and only if its
\* own threshold holds (score < 45, grade < 70, attendance < 85,
\* participation <= 2); it occurs once, after the ten preamble lines and
\* before the two closing lines, is followed by exactly 1, 2, 1 and 2
\* suggestion lines, and the blocks keep the order score, grade, attendance,
\* participation.  When all four hold there is no fallback line.
C4_BlocksIffThresholds ==
    (Returned(GRS) /\ call.prediction = 1) =>
        /\ \A k \in 1 .. 4 :
              LET at == Positions(ret, ObservationLines[k])
              IN  /\ (at # {}) <=> Triggers(call)[k]
                  /\ Cardinality(at) <= 1
                  /\ \A i \in at :
                        /\ i > 10
                        /\ i + SuggestionCount[k] <= Len(ret) - 2
                        /\ \A j \in 1 .. SuggestionCount[k] : ret[i + j] \in SuggestionLines
                        /\ ret[i + SuggestionCount[k] + 1] \notin SuggestionLines
        /\ \A j, k \in 1 .. 4 :
              j < k => \A a \in Positions(ret, ObservationLines[j]),
                          b \in Positions(ret, ObservationLines[k]) : a < b
        /\ Len(ret) >= 12 + Cardinality({ i \in 1 .. Len(ret) : ret[i] \in SuggestionLines })
        /\ Cardinality({ i \in 1 .. Len(ret) : ret[i] \in SuggestionLines })
              = (IF Triggers(call)[1] THEN 1 ELSE 0) + (IF Triggers(call)[2] THEN 2 ELSE 0)
                + (IF Triggers(call)[3] THEN 1 ELSE 0) + (IF Triggers(call)[4] THEN 2 ELSE 0)
        /\ Triggers(call) = << TRUE, TRUE, TRUE, TRUE >> =>
              /\ Count(ret, FallbackLine) = 0
              /\ Len(ret) = 22

C4_Witness ==
    /\ Returned(GRS)
    /\ call.prediction = 1
    /\ call.score = 30
    /\ call.grade = 60
    /\ call.attendance = 80
    /\ call.participation = 1
    /\ ret[11] = ObservationLines[1]
    /\ ret[13] = ObservationLines[2]
    /\ ret[16] = ObservationLines[3]
    /\ ret[18] = ObservationLines[4]

\* C5: with label 1 the fallback line is in the list if and only if none of
\* the four thresholds triggers; it is never there together with an
\* observation block and never more than once.
C5_FallbackIffNoneTriggered ==
    (Returned(GRS) /\ call.prediction = 1) =>
        /\ (Count(ret, "* No specific low metrics triggered; focus on general strategies.") = 1)
              <=> (Triggers(call) = << FALSE, FALSE, FALSE, FALSE >>)
        /\ Count(ret, "* No specific low metrics triggered; focus on general strategies.") <= 1
        /\ Count(ret, "* No specific low metrics triggered; focus on general strategies.") = 1
              => \A k \in 1 .. 4 : Count(ret, ObservationLines[k]) = 0

C5_Witness ==
    /\ Returned(GRS)
    /\ call.prediction = 1
    /\ call.score = 45
    /\ call.grade = 70
    /\ call.attendance = 85
    /\ call.participation = 3
    /\ Count(ret, FallbackLine) = 1

C5_WitnessTriggered ==
    /\ Returned(GRS)
    /\ call.prediction = 1
    /\ call.score = 45
    /\ call.grade = 70
    /\ call.attendance = 85
    /\ call.participation = 2
    /\ Count(ret, FallbackLine) = 0

\* a second call that differs from the first in the score alone, the score
\* having gone from a value >= 45 to a value < 45, both with label 1
ScoreCrossedDown ==
    /\ Returned(GRS)
    /\ prev # << >>
    /\ call.prediction = 1
    /\ SameButScore(prev[1].call, call)
    /\ prev[1].call.score >= 45
    /\ call.score < 45

\* C6 as stated: crossing the score boundary downwards adds the score block
\* once and makes no other change to the list.
C6_OnlyScoreBlockAdded ==
    ScoreCrossedDown =>
        /\ \E i \in 0 .. Len(prev[1].ret) : ret = InsertAt(prev[1].ret, i, ScoreBlock)
        /\ Count(ret, ObservationLines[1]) = 1

\* C6 amended: crossing the score boundary downwards adds the score block
\* (its observation line and its one suggestion) once; the only other change
\* is that the fallback line, which the first list holds exactly when no
\* other threshold triggers, is dropped.
C6_ScoreBlockAddedFallbackDropped ==
    ScoreCrossedDown =>
        /\ ret = InsertAt(SelectSeq(prev[1].ret, NotFallback), 10,
                          << ObservationLines[1],
                             "    * *Suggestion:* Focus on foundational concepts for test topics." >>)
        /\ Count(ret, ObservationLines[1]) = 1
        /\ Count(prev[1].ret, ObservationLines[1]) = 0
        /\ (Count(prev[1].ret, FallbackLine) = 1)
              <=> (~ Triggers(call)[2] /\ ~ Triggers(call)[3] /\ ~ Triggers(call)[4])

C6_Witness ==
    /\ ScoreCrossedDown
    /\ prev[1].call.score = 45
    /\ call.score = 44
    /\ Count(prev[1].ret, FallbackLine) = 1
    /\ Count(ret, FallbackLine) = 0
    /\ Len(ret) = Len(prev[1].ret) + 1

\* C7: load_artifacts returns both artifacts or (None, None), never exactly
\* one; it returns (None, None) when either file is absent or cannot be
\* deserialized, also when only the model fails; both when both files load;
\* and no exception leaves it.
C7_BothOrNone ==
    Returned(LOAD) =>
        /\ (ret.scaler = None) <=> (ret.model = None)
        /\ (call.files.scaler = "present" /\ call.files.model = "present")
              <=> (ret.scaler # None /\ ret.model # None)
        /\ ret.escaped = "none"
        /\ (ret.scaler = None) <=> (ret.error # None)

C7_Witness ==
    /\ Returned(LOAD)
    /\ call.files.scaler = "present"
    /\ call.files.model = "corrupt"
    /\ ret.scaler = None
    /\ ret.model = None

\* C8: once load_artifacts has been called, every later script run takes the
\* cached result: the cache entry stays, its body is not run again, no file
\* is read, and the globals are the cached pair, so a failed load stays
\* unavailable whatever the files are by then.
C8_LoadedOnce ==
    [][ cache # << >> =>
          /\ cache' = cache
          /\ reads' = reads
          /\ loads' = loads
          /\ loads = 1
          /\ scaler' = cache[1].scaler
          /\ final_model' = cache[1].model
          /\ (cache[1].scaler = None => page'.banner = "warning") ]_vars

C8_Witness ==
    /\ cache # << >>
    /\ cache[1].scaler = None
    /\ fs = [scaler |-> "present", model |-> "present"]
    /\ predict_button
    /\ loads = 1
    /\ scaler = None
    /\ page.banner = "warning"

\* C9: predict_slow_learner returns (None, None) and calls neither transform
\* nor predict when the scaler or the classifier is None; the main area run
\* with either global None renders the unavailability warning only: no
\* status, no probability metric, no suggestions, no prediction call.
C9_NullArtifactsNoPrediction ==
    /\ (Returned(PSL) /\ (call.scaler_obj = None \/ call.model_obj = None)) =>
          /\ ret.prediction = None
          /\ ret.probability = None
          /\ ret.transformed = << >>
          /\ ret.predicted = << >>
    /\ (Returned(MAIN) /\ (call.scaler = None \/ call.final_model = None)) =>
          /\ ret.banner = "warning"
          /\ ret.status = "none"
          /\ ret.metric = None
          /\ ret.suggestions = << >>
          /\ ret.transformCalls = 0

C9_Witness ==
    /\ Returned(PSL)
    /\ call.scaler_obj # None
    /\ call.model_obj = None
    /\ ret.prediction = None
    /\ ret.transformed = << >>

C9_WitnessMain ==
    /\ Returned(MAIN)
    /\ call.scaler = None
    /\ call.predict_button
    /\ ret.banner = "warning"

\* a feature value outside its declared range
OutOfRange(data) ==
    \/ data.Standardized_Test_Score < 0 \/ data.Standardized_Test_Score > 100
    \/ data.Average_Grade < 0 \/ data.Average_Grade > 100
    \/ data.Attendance_Percentage < 0 \/ data.Attendance_Percentage > 100
    \/ data.Times_Late < 0
    \/ data.Participation_Rating < 1 \/ data.Participation_Rating > 5

\* C10 as stated: a feature row with a value outside its declared range is
\* rejected before the scaler's transform is called, and no prediction is
\* returned for it.
C10_OutOfRangeRejected ==
    (Returned(PSL) /\ OutOfRange(call.data)) =>
        /\ ret.transformed = << >>
        /\ ret.prediction = None

\* C10 amended: predict_slow_learner does not validate ranges: called with a
\* non-null scaler and classifier and a feature row with a value outside its
\* declared range, it hands the row unchanged to the scaler's transform and
\* returns the classifier's prediction and probability.
C10_OutOfRangeReachesScaler ==
    (Returned(PSL) /\ OutOfRange(call.data) /\ call.scaler_obj # None /\ call.model_obj # None) =>
        /\ ret.transformed = << call.data >>
        /\ ret.prediction # None
        /\ ret.probability # None

C10_Witness ==
    /\ Returned(PSL)
    /\ call.data.Standardized_Test_Score = 101
    /\ call.data.Participation_Rating = 0
    /\ call.scaler_obj # None
    /\ call.model_obj # None
    /\ ret.transformed = << call.data >>
    /\ ret.prediction = << 1 >>

====
